---- MODULE Spec2Model ----
(***************************************************************************)
(* Model of src/src/app.py: a Streamlit page that shows Cortex AI SQL      *)
(* templates.  Two parts of the file are modelled:                         *)
(*                                                                         *)
(*   - main() and the five render_* routines.  Streamlit re-runs main()    *)
(*     from top to bottom after every user interaction; one such re-run    *)
(*     is one "render pass".  The state is the widget state (the radio,    *)
(*     the form fields, the button pressed for this pass) and what the     *)
(*     last pass called and displayed.                                     *)
(*   - get_session(), which has no caller in the file; it is exercised     *)
(*     by the specification SpecSession.                                   *)
(*                                                                         *)
(* Text is a sequence of tokens.  A token is either one character a user   *)
(* typed, one of the delimiters the templates put around interpolated      *)
(* values ("$$", "'"), or a literal chunk of the source text.  Literal     *)
(* chunks of display calls other than the interpolating templates are      *)
(* abbreviated to their first words; emoji of the labels are left out.     *)
(***************************************************************************)
EXTENDS Integers, Sequences, FiniteSets, TLC

(* ------------------------------ bounds --------------------------------- *)

\* number of sample texts (first of TextPool) a user types into a text field
NumTexts == 3
\* number of distinct non-empty configuration values
NumValues == 1
\* SpecIdem: number of sample texts (first of TextPool) the user types
IdemTextCount == 0
\* SpecIdem: number of risk categories (first of the list) the user toggles
IdemCatCount == 1

(* -------------------------- program constants -------------------------- *)

AVAILABLE_LLMS ==
    <<"claude-3-5-sonnet", "llama3.1-70b", "mistral-large2", "snowflake-arctic">>

\* options of st.sidebar.radio
MENU ==
    <<"Introduction", "1 Classification & Filtering", "2 Extraction & Sentiment",
      "3 Aggregation & Similarity", "4 Multimodal Capabilities">>

\* options of st.multiselect("Risk Categories:")
RISK_CATEGORIES ==
    <<"insider_trading", "market_manipulation", "data_exfiltration",
      "unauthorized_communication", "clean">>

DefaultCategories == <<"insider_trading", "market_manipulation", "clean">>

DefaultSampleEmail ==
    <<"Hey, just heard from my contact at Acme Corp - they're announcing the merger tomorrow before market open. We should load up on shares today.">>

DefaultFilterQuestion == <<"Does this mention non-public information?">>

DefaultExtractEmail ==
    <<"Meeting with Goldman Sachs next Tuesday to discuss the AAPL and MSFT positions. Target price for AAPL is $250 by Q2. John from compliance should be looped in.">>

extraction_questions ==
    <<"What securities or tickers are mentioned?",
      "Are there any price predictions or targets?",
      "What external parties are referenced?",
      "What dates or timeframes are mentioned?">>

DefaultSourceText ==
    <<"Ich habe vertrauliche Informationen über die bevorstehende Fusion erhalten. Wir sollten schnell handeln.">>

\* keys of the trigger buttons; NoButton: no button was pressed for this pass
NoButton == "none"
BUTTONS == {"classify_btn", "filter_btn", "extract_btn", "translate_btn"}

\* the view whose routine creates the button
ButtonView(b) ==
    IF b \in {"classify_btn", "filter_btn"} THEN MENU[2] ELSE MENU[3]

(* ------------------------------ user input ----------------------------- *)

Range(s) == {s[i] : i \in 1..Len(s)}

\* Sample texts a user types.  "$$" and "'" are the delimiters the templates
\* put around interpolated text; "#" stands for any other character.
TextPool ==
    << <<"$$">>, <<"'">>, <<"#", "'", "$$", "#">>, <<"#">>, <<"$$", "$$">> >>

\* what a user can leave in a text field: nothing, or a sample text
Texts == {<<>>} \cup {TextPool[i] : i \in 1..NumTexts}

IdemTexts == {<<>>} \cup {TextPool[i] : i \in 1..IdemTextCount}

IdemCats == {RISK_CATEGORIES[i] : i \in 1..IdemCatCount}

(* ------------------------------- helpers ------------------------------- *)
\* Range, Contains, Count and Lines are plain sequence arithmetic.

\* needle occurs in hay as a contiguous run of tokens
Contains(hay, needle) ==
    \E i \in 0..(Len(hay) - Len(needle)) :
        SubSeq(hay, i + 1, i + Len(needle)) = needle

Count(s, x) == Cardinality({i \in 1..Len(s) : s[i] = x})

Remove(s, x) == SelectSeq(s, LAMBDA y : y # x)

\* one display call: the st.* function, the source line of the call, its text
Emit(call, line, text) == [call |-> call, line |-> line, text |-> text]

Lines(out) == {out[i].line : i \in 1..Len(out)}

(* ----------------------- string formatting (Python) -------------------- *)

\* repr() of a str that holds no quote and no escape: the text in single quotes
ReprStr(s) == <<"'", s, "'">>

\* ", ".join(repr(x) for x in xs)
RECURSIVE JoinRepr(_)
JoinRepr(xs) ==
    IF Len(xs) = 0 THEN <<>>
    ELSE IF Len(xs) = 1 THEN ReprStr(xs[1])
    ELSE ReprStr(xs[1]) \o <<", ">> \o JoinRepr(Tail(xs))

\* str() of a list, which is what an f-string makes of {categories}
ListStr(xs) == <<"[">> \o JoinRepr(xs) \o <<"]">>

(* ------------------------------ templates ------------------------------ *)

\* a mutant of ClassifySql: the category list is left out of the template
ClassifySqlNoCategories(sample_email_, categories_) ==
    <<"\n-- Classify email into compliance risk categories\nSELECT\n    AI_CLASSIFY(\n        ",
      "$$">> \o sample_email_ \o <<"$$", "\n    ) AS risk_classification;\n">>

\* the f-string of render_demo_1_classification, tab1
ClassifySql(sample_email_, categories_) ==
    <<"\n-- Classify email into compliance risk categories\nSELECT\n    AI_CLASSIFY(\n        ",
      "$$">> \o sample_email_ \o <<"$$", ",\n        ">>
    \o ListStr(categories_)
    \o <<"\n    ) AS risk_classification;\n">>

\* the f-string of render_demo_1_classification, tab2
FilterSql(filter_question_) ==
    <<"\n-- Boolean filter using natural language\nSELECT email_id, sender, subject,\n       AI_FILTER(email_content, ",
      "'">> \o filter_question_
    \o <<"'", ") AS flagged\nFROM compliance_emails\nWHERE AI_FILTER(email_content, ", "'">>
    \o filter_question_
    \o <<"'", ") = TRUE;\n">>

\* the f-string of render_demo_2_extraction, tab1: it interpolates selected_q
\* alone; the text area "Email content:" is read and not used
ExtractSql(sample_email_, selected_q_) ==
    <<"\n-- Extract specific compliance-relevant information\nSELECT\n    email_id,\n    AI_EXTRACT(email_content, ",
      "'", selected_q_, "'",
      ") AS extracted_info\nFROM compliance_emails\nWHERE compliance_flag = TRUE;\n">>

\* the f-string of render_demo_2_extraction, tab3
TranslateSql(source_text_) ==
    <<"\n-- Translate then analyze international communications\nSELECT\n    email_id,\n    original_language,\n    AI_TRANSLATE(",
      "$$">> \o source_text_
    \o <<"$$", ", 'de', 'en') AS translated_content,\n    AI_CLASSIFY(\n        AI_TRANSLATE(", "$$">>
    \o source_text_
    \o <<"$$", ", 'de', 'en'),\n        ['insider_trading', 'market_manipulation', 'clean']\n    ) AS risk_category\nFROM international_emails;\n">>

(* --------------------------- rendering routines ------------------------ *)
\* Each routine is the sequence of its display calls, in source order.  A
\* routine reads the widget values f and the button pressed for this pass;
\* st.tabs and st.columns run the code of every tab and column in each pass.

render_intro ==
    << Emit("st.header", 84, <<"Introduction to Cortex AI SQL Functions">>),
       Emit("st.markdown", 86, <<"### What are AI SQL Functions? ...">>),
       Emit("st.markdown", 106, <<"**Text Analysis:** ...">>),
       Emit("st.markdown", 115, <<"**Advanced:** ...">>),
       Emit("st.info", 124, <<"[Documentation](https://docs.snowflake.com/en/user-guide/snowflake-cortex/aisql)">>) >>

\* a mutant of render_demo_1_classification: the Classify template is shown
\* whether or not the button was pressed
render_demo_1_unguarded(f, btn) ==
    << Emit("st.header", 129, <<"1 Text Classification & Filtering">>),
       Emit("st.markdown", 130, <<"Automatically categorize emails ...">>),
       Emit("st.subheader", 135, <<"AI_CLASSIFY: Email Risk Categorization">>),
       Emit("st.markdown", 136, <<"**Zero-shot classification** ...">>),
       Emit("st.code", 163, ClassifySql(f.sample_email, f.categories)),
       Emit("st.success", 164, <<"**Expected output:** insider_trading (high confidence)">>),
       Emit("st.subheader", 167, <<"AI_FILTER: Natural Language Filtering">>),
       Emit("st.markdown", 168, <<"Ask yes/no questions about content in plain English.">>) >>
    \o (IF btn = "filter_btn"
        THEN << Emit("st.code", 183, FilterSql(f.filter_question)) >>
        ELSE <<>>)
    \o << Emit("st.subheader", 186, <<"Combined: Classify + Filter Pipeline">>),
          Emit("st.code", 202, <<"\n-- Real-time email monitoring pipeline ...">>) >>

\* a mutant of render_demo_1_classification: the Classify branch also asks
\* for a non-empty sample_email ("if st.button(...) and sample_email:")
render_demo_1_input_guarded(f, btn) ==
    << Emit("st.header", 129, <<"1 Text Classification & Filtering">>),
       Emit("st.markdown", 130, <<"Automatically categorize emails ...">>),
       Emit("st.subheader", 135, <<"AI_CLASSIFY: Email Risk Categorization">>),
       Emit("st.markdown", 136, <<"**Zero-shot classification** ...">>) >>
    \o (IF btn = "classify_btn" /\ f.sample_email # <<>>
        THEN << Emit("st.code", 163, ClassifySql(f.sample_email, f.categories)),
                Emit("st.success", 164, <<"**Expected output:** insider_trading (high confidence)">>) >>
        ELSE <<>>)
    \o << Emit("st.subheader", 167, <<"AI_FILTER: Natural Language Filtering">>),
          Emit("st.markdown", 168, <<"Ask yes/no questions about content in plain English.">>) >>
    \o (IF btn = "filter_btn"
        THEN << Emit("st.code", 183, FilterSql(f.filter_question)) >>
        ELSE <<>>)
    \o << Emit("st.subheader", 186, <<"Combined: Classify + Filter Pipeline">>),
          Emit("st.code", 202, <<"\n-- Real-time email monitoring pipeline ...">>) >>

render_demo_1_classification(f, btn) ==
    << Emit("st.header", 129, <<"1 Text Classification & Filtering">>),
       Emit("st.markdown", 130, <<"Automatically categorize emails ...">>),
       Emit("st.subheader", 135, <<"AI_CLASSIFY: Email Risk Categorization">>),
       Emit("st.markdown", 136, <<"**Zero-shot classification** ...">>) >>
    \o (IF btn = "classify_btn"
        THEN << Emit("st.code", 163, ClassifySql(f.sample_email, f.categories)),
                Emit("st.success", 164, <<"**Expected output:** insider_trading (high confidence)">>) >>
        ELSE <<>>)
    \o << Emit("st.subheader", 167, <<"AI_FILTER: Natural Language Filtering">>),
          Emit("st.markdown", 168, <<"Ask yes/no questions about content in plain English.">>) >>
    \o (IF btn = "filter_btn"
        THEN << Emit("st.code", 183, FilterSql(f.filter_question)) >>
        ELSE <<>>)
    \o << Emit("st.subheader", 186, <<"Combined: Classify + Filter Pipeline">>),
          Emit("st.code", 202, <<"\n-- Real-time email monitoring pipeline ...">>) >>

render_demo_2_extraction(f, btn) ==
    << Emit("st.header", 207, <<"2 Information Extraction & Sentiment">>),
       Emit("st.markdown", 208, <<"Extract structured data and analyze emotional tone ...">>),
       Emit("st.subheader", 213, <<"AI_EXTRACT: Entity & Information Extraction">>),
       Emit("st.markdown", 214, <<"Ask specific questions to extract structured information.">>) >>
    \o (IF btn = "extract_btn"
        THEN << Emit("st.code", 241, ExtractSql(f.extract_email, f.selected_q)) >>
        ELSE <<>>)
    \o << Emit("st.subheader", 244, <<"AI_SENTIMENT: Risk Sentiment Analysis">>),
          Emit("st.markdown", 245, <<"Score sentiment from **-1 (negative)** to **+1 (positive)**. ...">>),
          Emit("st.code", 265, <<"\n-- Sentiment analysis across trading communications ...">>),
          Emit("st.markdown", 267, <<"**Use case:** Flag traders with consistently negative sentiment for review.">>),
          Emit("st.subheader", 270, <<"AI_TRANSLATE: International Communications">>),
          Emit("st.markdown", 271, <<"Handle multi-language compliance monitoring.">>) >>
    \o (IF btn = "translate_btn"
        THEN << Emit("st.code", 292, TranslateSql(f.source_text)),
                Emit("st.info", 293, <<"Translation: 'I have received confidential information about the upcoming merger. We should act quickly.'">>) >>
        ELSE <<>>)

render_demo_3_aggregation ==
    << Emit("st.header", 298, <<"3 Aggregation & Similarity">>),
       Emit("st.markdown", 299, <<"Analyze patterns across multiple records ...">>),
       Emit("st.subheader", 304, <<"AI_AGG: Aggregate Insights Across Groups">>),
       Emit("st.markdown", 305, <<"Summarize themes from multiple records using GROUP BY.">>),
       Emit("st.code", 321, <<"\n-- Summarize compliance risks by department ...">>),
       Emit("st.markdown", 323, <<"**Use case:** Executive dashboards summarizing risk by business unit.">>),
       Emit("st.subheader", 326, <<"AI_SIMILARITY: Pattern Detection">>),
       Emit("st.markdown", 327, <<"Find emails similar to known violations using vector embeddings.">>),
       Emit("st.code", 348, <<"\n-- Find emails similar to a known insider trading violation ...">>),
       Emit("st.markdown", 350, <<"**Use case:** Proactively identify communications ...">>) >>

render_demo_4_multimodal ==
    << Emit("st.header", 355, <<"4 Multimodal Capabilities">>),
       Emit("st.markdown", 356, <<"Process audio recordings and analyze document images.">>),
       Emit("st.subheader", 361, <<"AI_TRANSCRIBE: Compliance Call Processing">>),
       Emit("st.markdown", 362, <<"Convert recorded calls to text for analysis.">>),
       Emit("st.code", 386, <<"\n-- Transcribe and analyze compliance calls ...">>),
       Emit("st.markdown", 388, <<"**Pipeline:** Audio -> Transcription -> Classification -> Risk Scoring">>),
       Emit("st.subheader", 391, <<"AI_COMPLETE: Document Image Analysis">>),
       Emit("st.markdown", 392, <<"Analyze scanned documents, trade confirmations, and attachments.">>),
       Emit("st.code", 407, <<"\n-- Analyze document scans for compliance markers ...">>),
       Emit("st.markdown", 409, <<"**Supported formats:** ...">>) >>

(* --------------------------------- main -------------------------------- *)

\* the widget values a pass reads
Form(c, se, fq, ee, sq, stx) ==
    [categories |-> c, sample_email |-> se, filter_question |-> fq,
     extract_email |-> ee, selected_q |-> sq, source_text |-> stx]

DefaultForm ==
    Form(DefaultCategories, DefaultSampleEmail, DefaultFilterQuestion,
         DefaultExtractEmail, extraction_questions[1], DefaultSourceText)

\* A widget returns the value the user left in it while its view stays on
\* screen; a widget that was not created in a pass loses its value, and gives
\* its default (value=, default=, first option) when it is created again.
WidgetState(db, f) ==
    [categories      |-> IF db = MENU[2] THEN f.categories ELSE DefaultForm.categories,
     sample_email    |-> IF db = MENU[2] THEN f.sample_email ELSE DefaultForm.sample_email,
     filter_question |-> IF db = MENU[2] THEN f.filter_question ELSE DefaultForm.filter_question,
     extract_email   |-> IF db = MENU[3] THEN f.extract_email ELSE DefaultForm.extract_email,
     selected_q      |-> IF db = MENU[3] THEN f.selected_q ELSE DefaultForm.selected_q,
     source_text     |-> IF db = MENU[3] THEN f.source_text ELSE DefaultForm.source_text]

\* a mutant of main_calls: the branches are separate "if"s, so that the final
\* "else" belongs to the last test alone
main_calls_fallthrough(db) ==
    (IF db = MENU[1] THEN <<"render_intro">> ELSE <<>>)
    \o (IF db = MENU[2] THEN <<"render_demo_1_classification">> ELSE <<>>)
    \o (IF db = MENU[3] THEN <<"render_demo_2_extraction">> ELSE <<>>)
    \o (IF db = MENU[4] THEN <<"render_demo_3_aggregation">>
        ELSE <<"render_demo_4_multimodal">>)

\* a mutant of main_calls: main() opens a session in every pass
main_calls_with_session(db) ==
    <<"get_session">>
    \o (IF db = MENU[1] THEN <<"render_intro">>
        ELSE IF db = MENU[2] THEN <<"render_demo_1_classification">>
        ELSE IF db = MENU[3] THEN <<"render_demo_2_extraction">>
        ELSE IF db = MENU[4] THEN <<"render_demo_3_aggregation">>
        ELSE <<"render_demo_4_multimodal">>)

\* the functions of the module that main() calls in one pass, in order: the
\* if / elif chain that routes demo_block.  get_session is not among them.
main_calls(db) ==
    IF db = MENU[1] THEN <<"render_intro">>
    ELSE IF db = MENU[2] THEN <<"render_demo_1_classification">>
    ELSE IF db = MENU[3] THEN <<"render_demo_2_extraction">>
    ELSE IF db = MENU[4] THEN <<"render_demo_3_aggregation">>
    ELSE <<"render_demo_4_multimodal">>

\* what a called function displays
Run(name, f, btn) ==
    CASE name = "render_intro" -> render_intro
      [] name = "render_demo_1_classification" -> render_demo_1_classification(f, btn)
      [] name = "render_demo_2_extraction" -> render_demo_2_extraction(f, btn)
      [] name = "render_demo_3_aggregation" -> render_demo_3_aggregation
      [] name = "render_demo_4_multimodal" -> render_demo_4_multimodal
      [] OTHER -> <<>>

RECURSIVE RunAll(_, _, _)
RunAll(names, f, btn) ==
    IF names = <<>> THEN <<>>
    ELSE Run(Head(names), f, btn) \o RunAll(Tail(names), f, btn)

\* the display calls main() makes itself, before routing
main_prelude ==
    << Emit("st.title", 45, <<"GenAI for Financial Services Compliance">>),
       Emit("st.markdown", 46, <<"**Hands-on Lab**: Cortex AI SQL Functions for Email Communications Monitoring">>),
       Emit("st.sidebar.header", 49, <<"Demo Blocks">>),
       Emit("st.sidebar.divider", 61, <<>>),
       Emit("st.sidebar.markdown", 62, <<"**Available LLMs:**">>) >>
    \o [i \in 1..Len(AVAILABLE_LLMS) |->
            Emit("st.sidebar.caption", 64, <<"* ", AVAILABLE_LLMS[i]>>)]
    \o << Emit("st.sidebar.divider", 66, <<>>),
          Emit("st.sidebar.caption", 67, <<"Built with Snowflake Cortex AI SQL">>) >>

(* -------------------------------- state -------------------------------- *)

VARIABLES
    demo_block,       \* the radio's value
    categories,       \* st.multiselect "Risk Categories:", in order of selection
    sample_email,     \* st.text_area "Sample email content:"
    filter_question,  \* st.text_input "Filter question:"
    extract_email,    \* st.text_area "Email content:" (key "extract_email")
    selected_q,       \* st.selectbox "Extraction question:"
    source_text,      \* st.text_area "Non-English email:"
    pressed,          \* the button whose click started the last pass, or NoButton
    calls,            \* the functions main() called in the last pass
    output,           \* the display calls of the last pass
    session_calls,    \* get_session() calls the process has made
    ref,              \* an earlier pass, kept for comparison: {} or one record
    secrets,          \* st.secrets, the configuration mapping
    ambient,          \* what get_active_session() does in this environment
    creation,         \* what Session.builder.configs(...).create() does in it
    gs_pc,            \* "idle" before a call of get_session(), "done" after
    gs                \* the record of that call

uiVars ==
    <<demo_block, categories, sample_email, filter_question, extract_email,
      selected_q, source_text, pressed, calls, output, session_calls>>

sessionVars == <<secrets, ambient, creation, gs_pc, gs>>

vars == <<uiVars, ref, sessionVars>>

CurrentForm ==
    Form(categories, sample_email, filter_question, extract_email, selected_q,
         source_text)

\* everything a pass reads
Inputs(db, f, btn) == [demo_block |-> db, form |-> f, pressed |-> btn]

CurrentInputs == Inputs(demo_block, CurrentForm, pressed)

\* a mutant of main: the Classify result note is kept in a module-level cache
\* and shown again in later passes of the view
main_cached(db, f, btn) ==
    main_prelude \o RunAll(main_calls(db), f, btn)
    \o (IF db = MENU[2] /\ btn # "classify_btn" /\ 164 \in Lines(output)
        THEN << Emit("st.success", 164, <<"**Expected output:** insider_trading (high confidence)">>) >>
        ELSE <<>>)

\* the display calls of one pass of main()
main(db, f, btn) == main_prelude \o RunAll(main_calls(db), f, btn)

\* One render pass: Streamlit runs main() from the top with the radio at db,
\* the widget values of f and the button btn pressed.
Rerun(db, f, btn) ==
    LET g == WidgetState(db, f) IN
    /\ demo_block' = db
    /\ categories' = g.categories
    /\ sample_email' = g.sample_email
    /\ filter_question' = g.filter_question
    /\ extract_email' = g.extract_email
    /\ selected_q' = g.selected_q
    /\ source_text' = g.source_text
    /\ pressed' = btn
    /\ calls' = main_calls(db)
    /\ output' = main(db, g, btn)
    /\ session_calls' = session_calls + Count(main_calls(db), "get_session")

(* ------------------------------ get_session ---------------------------- *)

\* the options get_session() reads from the "snowflake" section
KEYS == <<"account", "user", "password", "warehouse", "database", "schema">>

\* an option of the section that get_session() does not read
OtherKeys == {"role"}

ValuePool == <<"acme", "analyst", "s3cret">>

\* values an option can carry: the empty string or a configured text
Values == {""} \cup {ValuePool[i] : i \in 1..NumValues}

EmptyMapping == [k \in {} |-> ""]

\* the "snowflake" sections: any subset of the options, each with a value
Sections == UNION {[D -> Values] : D \in SUBSET (Range(KEYS) \cup OtherKeys)}

\* st.secrets: with or without a "snowflake" section
SecretsSet == {EmptyMapping} \cup {[snowflake |-> sec] : sec \in Sections}

\* get_active_session() returns the active session, raises an Exception (no
\* active session), or is ended by a BaseException that is no Exception
AmbientOutcomes == {"active", "Exception", "BaseException"}

\* Session.builder.configs(...).create() returns a session or raises
CreateOutcomes == {"created", "raises"}

\* Mapping.get(key, default)
MappingGet(m, k, d) == IF k \in DOMAIN m THEN m[k] ELSE d

\* a mutant of connection_params: the lookups have no default (None)
connection_params_no_default(sec) ==
    [k \in Range(KEYS) |->
        MappingGet(MappingGet(sec, "snowflake", EmptyMapping), k, "None")]

\* the dict built in the except branch
connection_params(sec) ==
    [k \in Range(KEYS) |->
        MappingGet(MappingGet(sec, "snowflake", EmptyMapping), k, "")]

\* the record of one call: how often each step ran, the parameters built (a
\* set: empty when the except branch did not run), and how the call ended
CallRecord(aa, reads, ca, params, outcome, handle, error) ==
    [ambientAttempts |-> aa, configReads |-> reads, createAttempts |-> ca,
     params |-> params, outcome |-> outcome, handle |-> handle, error |-> error]

NoCall == CallRecord(0, 0, 0, {}, "none", "none", "none")

\* a mutant of get_session: the configuration is read and a session built
\* without asking for the active session first
get_session_config_first(amb, sec, co) ==
    IF co = "created"
    THEN CallRecord(0, Len(KEYS), 1, {connection_params(sec)}, "returned", "new", "none")
    ELSE CallRecord(0, Len(KEYS), 1, {connection_params(sec)}, "raised", "none", "create")

\* a mutant of get_session: a failed construction is caught and tried again,
\* and None is returned when the second attempt fails too
get_session_retry(amb, sec, co) ==
    IF amb = "active"
    THEN CallRecord(1, 0, 0, {}, "returned", "ambient", "none")
    ELSE IF amb = "BaseException"
    THEN CallRecord(1, 0, 0, {}, "raised", "none", "BaseException")
    ELSE IF co = "created"
    THEN CallRecord(1, Len(KEYS), 1, {connection_params(sec)}, "returned", "new", "none")
    ELSE CallRecord(1, Len(KEYS), 2, {connection_params(sec)}, "returned", "none", "none")

\* get_session(): try get_active_session(); on an Exception build the
\* parameters from st.secrets and create a session; nothing else is caught
get_session(amb, sec, co) ==
    IF amb = "active"
    THEN CallRecord(1, 0, 0, {}, "returned", "ambient", "none")
    ELSE IF amb = "BaseException"
    THEN CallRecord(1, 0, 0, {}, "raised", "none", "BaseException")
    ELSE IF co = "created"
    THEN CallRecord(1, Len(KEYS), 1, {connection_params(sec)}, "returned", "new", "none")
    ELSE CallRecord(1, Len(KEYS), 1, {connection_params(sec)}, "raised", "none", "create")

(* -------------------------------- actions ------------------------------ *)

\* the user picks another entry of the sidebar radio
SelectDemo(label) ==
    /\ label # demo_block
    /\ Rerun(label, CurrentForm, NoButton)

\* the user adds a category to the multiselect, or removes one from it
ToggleCategory(c) ==
    /\ demo_block = MENU[2]
    /\ LET cs == IF c \in Range(categories) THEN Remove(categories, c)
                 ELSE Append(categories, c)
       IN Rerun(demo_block, [CurrentForm EXCEPT !.categories = cs], NoButton)

EditSampleEmail(t) ==
    /\ demo_block = MENU[2]
    /\ t # sample_email
    /\ Rerun(demo_block, [CurrentForm EXCEPT !.sample_email = t], NoButton)

EditFilterQuestion(t) ==
    /\ demo_block = MENU[2]
    /\ t # filter_question
    /\ Rerun(demo_block, [CurrentForm EXCEPT !.filter_question = t], NoButton)

EditExtractEmail(t) ==
    /\ demo_block = MENU[3]
    /\ t # extract_email
    /\ Rerun(demo_block, [CurrentForm EXCEPT !.extract_email = t], NoButton)

SelectQuestion(q) ==
    /\ demo_block = MENU[3]
    /\ q # selected_q
    /\ Rerun(demo_block, [CurrentForm EXCEPT !.selected_q = q], NoButton)

EditSourceText(t) ==
    /\ demo_block = MENU[3]
    /\ t # source_text
    /\ Rerun(demo_block, [CurrentForm EXCEPT !.source_text = t], NoButton)

\* the user clicks a button of the view on screen
Click(b) ==
    /\ demo_block = ButtonView(b)
    /\ Rerun(demo_block, CurrentForm, b)

\* a call of get_session() in the environment (ambient, secrets, creation)
GetSession ==
    /\ gs_pc = "idle"
    /\ gs' = get_session(ambient, secrets, creation)
    /\ gs_pc' = "done"
    /\ UNCHANGED <<secrets, ambient, creation>>

(* ---------------------------- specifications --------------------------- *)

\* the state after the first pass of a new browser session
InitUI ==
    /\ demo_block = MENU[1]
    /\ categories = DefaultForm.categories
    /\ sample_email = DefaultForm.sample_email
    /\ filter_question = DefaultForm.filter_question
    /\ extract_email = DefaultForm.extract_email
    /\ selected_q = DefaultForm.selected_q
    /\ source_text = DefaultForm.source_text
    /\ pressed = NoButton
    /\ calls = main_calls(MENU[1])
    /\ output = main(MENU[1], DefaultForm, NoButton)
    /\ session_calls = Count(main_calls(MENU[1]), "get_session")
    /\ ref = {}

\* the page: local development without a secrets section
Init ==
    /\ InitUI
    /\ secrets = EmptyMapping
    /\ ambient = "Exception"
    /\ creation = "raises"
    /\ gs_pc = "idle"
    /\ gs = NoCall

\* the rest of the state during an interaction with the page
Page == ref' = ref /\ UNCHANGED sessionVars

Next ==
    \/ \E l \in Range(MENU) : SelectDemo(l) /\ Page
    \/ \E c \in Range(RISK_CATEGORIES) : ToggleCategory(c) /\ Page
    \/ \E t \in Texts : EditSampleEmail(t) /\ Page
    \/ \E t \in Texts : EditFilterQuestion(t) /\ Page
    \/ \E t \in Texts : EditExtractEmail(t) /\ Page
    \/ \E q \in Range(extraction_questions) : SelectQuestion(q) /\ Page
    \/ \E t \in Texts : EditSourceText(t) /\ Page
    \/ \E b \in BUTTONS : Click(b) /\ Page

Spec == Init /\ [][Next]_vars

\* the pass just made, as (what it read, what it displayed); left: a later
\* pass has read other inputs since
ThisPass == [inputs |-> CurrentInputs, output |-> output, left |-> FALSE]

\* SpecIdem keeps one earlier pass: any pass may be the one that is kept
Keep ==
    /\ ref' \in (IF ref = {} THEN {{}, {ThisPass'}}
                 ELSE {{[r EXCEPT !.left = r.left \/ CurrentInputs' # r.inputs] :
                            r \in ref}})
    /\ UNCHANGED sessionVars

NextIdem ==
    \/ \E l \in Range(MENU) : SelectDemo(l) /\ Keep
    \/ \E c \in IdemCats : ToggleCategory(c) /\ Keep
    \/ \E t \in IdemTexts : EditSampleEmail(t) /\ Keep
    \/ \E t \in IdemTexts : EditFilterQuestion(t) /\ Keep
    \/ \E t \in IdemTexts : EditExtractEmail(t) /\ Keep
    \/ \E q \in Range(extraction_questions) : SelectQuestion(q) /\ Keep
    \/ \E t \in IdemTexts : EditSourceText(t) /\ Keep
    \/ \E b \in BUTTONS : Click(b) /\ Keep

\* the page with a smaller set of user inputs and one earlier pass kept
SpecIdem == Init /\ [][NextIdem]_vars

\* get_session() called once in any environment
InitSession ==
    /\ InitUI
    /\ secrets \in SecretsSet
    /\ ambient \in AmbientOutcomes
    /\ creation \in CreateOutcomes
    /\ gs_pc = "idle"
    /\ gs = NoCall

NextSession == GetSession /\ ref' = ref /\ UNCHANGED uiVars

SpecSession == InitSession /\ [][NextSession]_vars

(* -------------------------------- claims ------------------------------- *)

ROUTINES ==
    {"render_intro", "render_demo_1_classification", "render_demo_2_extraction",
     "render_demo_3_aggregation", "render_demo_4_multimodal"}

\* the routine that belongs to a menu label
RoutineOf(label) ==
    CASE label = MENU[1] -> "render_intro"
      [] label = MENU[2] -> "render_demo_1_classification"
      [] label = MENU[3] -> "render_demo_2_extraction"
      [] label = MENU[4] -> "render_demo_3_aggregation"
      [] label = MENU[5] -> "render_demo_4_multimodal"

\* the display calls of the last pass made at a source line
ItemsAt(line) == {output[i] : i \in {j \in 1..Len(output) : output[j].line = line}}

\* C1: for each of the five menu labels, a pass calls the routine of that
\* label exactly once and none of the other four routines.
C1_DispatchExactlyOne ==
    /\ demo_block \in Range(MENU)
    /\ Count(calls, RoutineOf(demo_block)) = 1
    /\ \A r \in ROUTINES \ {RoutineOf(demo_block)} : Count(calls, r) = 0

\* C1 witness: the last label, served by the final else branch
C1_Witness ==
    /\ demo_block = MENU[5]
    /\ calls = <<"render_demo_4_multimodal">>
    /\ 355 \in Lines(output)

\* C2 as stated: a trigger pressed while its input field is empty produces
\* no template in that pass.
C2_EmptyInputSkipped ==
    /\ (pressed = "classify_btn" /\ sample_email = <<>>) => 163 \notin Lines(output)
    /\ (pressed = "filter_btn" /\ filter_question = <<>>) => 183 \notin Lines(output)
    /\ (pressed = "translate_btn" /\ source_text = <<>>) => 292 \notin Lines(output)

\* C2 amended: a trigger pressed while its input field is empty still
\* produces its template, with nothing between the two delimiters.
C2_EmptyInputStillRendered ==
    /\ (pressed = "classify_btn" /\ sample_email = <<>>) =>
          /\ ItemsAt(163) # {}
          /\ \A it \in ItemsAt(163) : Contains(it.text, <<"$$", "$$">>)
    /\ (pressed = "filter_btn" /\ filter_question = <<>>) =>
          /\ ItemsAt(183) # {}
          /\ \A it \in ItemsAt(183) : Contains(it.text, <<"'", "'">>)
    /\ (pressed = "translate_btn" /\ source_text = <<>>) =>
          /\ ItemsAt(292) # {}
          /\ \A it \in ItemsAt(292) : Contains(it.text, <<"$$", "$$">>)

\* C2 witness: Classify pressed with an empty sample email
C2_Witness ==
    /\ pressed = "classify_btn"
    /\ sample_email = <<>>
    /\ ItemsAt(163) # {}

\* C3: when a view's trigger fires, the displayed template contains the
\* non-empty value of each free-text field of that trigger verbatim.
C3_FreeTextVerbatim ==
    /\ (pressed = "classify_btn" /\ sample_email # <<>>) =>
          \A it \in ItemsAt(163) : Contains(it.text, sample_email)
    /\ (pressed = "filter_btn" /\ filter_question # <<>>) =>
          \A it \in ItemsAt(183) : Contains(it.text, filter_question)
    /\ (pressed = "extract_btn" /\ extract_email # <<>>) =>
          \A it \in ItemsAt(241) : Contains(it.text, extract_email)
    /\ (pressed = "translate_btn" /\ source_text # <<>>) =>
          \A it \in ItemsAt(292) : Contains(it.text, source_text)

\* C8: Classify displays a template that contains every selected category
\* and the sample text.
C8_ClassifyTemplate ==
    pressed = "classify_btn" =>
        /\ ItemsAt(163) # {}
        /\ \A it \in ItemsAt(163) :
              /\ \A c \in Range(categories) : Contains(it.text, <<c>>)
              /\ Contains(it.text, sample_email)

\* C8 witness: the scenario of the specification
C8_Witness ==
    /\ demo_block = MENU[2]
    /\ pressed = "classify_btn"
    /\ categories = <<"insider_trading", "clean">>
    /\ sample_email = DefaultSampleEmail
    /\ ItemsAt(163) # {}

\* the source line of the template a trigger button displays
TemplateLine(b) ==
    CASE b = "classify_btn" -> 163
      [] b = "filter_btn" -> 183
      [] b = "extract_btn" -> 241
      [] b = "translate_btn" -> 292

\* C10: an interpolating template is displayed only in a pass in which its
\* own button was pressed and its view is the selected one.
C10_TemplateOnlyOnTrigger ==
    \A b \in BUTTONS :
        TemplateLine(b) \in Lines(output) =>
            pressed = b /\ demo_block = ButtonView(b)

\* C10 witness: another button of the view was pressed, the field of the
\* template was edited, and the template is not displayed
C10_Witness ==
    /\ demo_block = MENU[2]
    /\ pressed = "filter_btn"
    /\ sample_email = TextPool[1]
    /\ 183 \in Lines(output)
    /\ 163 \notin Lines(output)

ExpectedParams ==
    [k \in Range(KEYS) |->
        IF "snowflake" \in DOMAIN secrets /\ k \in DOMAIN secrets["snowflake"]
        THEN secrets["snowflake"][k]
        ELSE ""]

\* C4: in the fallback the handle is built from exactly the six options, each
\* present one with its configured value, each absent one with "", whatever
\* is missing; the lookup does not fail, and the parameters depend on the
\* mapping alone.
C4_ParamsDefaultEmpty ==
    (gs_pc = "done" /\ ambient = "Exception") =>
        /\ gs.configReads = Len(KEYS)
        /\ gs.createAttempts = 1
        /\ gs.params = {ExpectedParams}
        /\ \A p \in gs.params : DOMAIN p = Range(KEYS)

\* C4 witness: a section with one of the six options and an unread option
C4_Witness ==
    /\ gs_pc = "done"
    /\ ambient = "Exception"
    /\ "snowflake" \in DOMAIN secrets
    /\ DOMAIN secrets["snowflake"] = {"account", "role"}
    /\ secrets["snowflake"]["account"] # ""
    /\ gs.params # {}

\* C5 as stated: an active session is returned without reading the
\* configuration or building a session; after any failure of the lookup the
\* configuration is read and a new session is returned.
C5_AmbientElseNew ==
    gs_pc = "done" =>
        /\ ambient = "active" =>
              /\ gs.outcome = "returned" /\ gs.handle = "ambient"
              /\ gs.configReads = 0 /\ gs.createAttempts = 0
        /\ ambient # "active" =>
              /\ gs.configReads > 0
              /\ gs.outcome = "returned" /\ gs.handle = "new"

\* C5 amended: an active session is returned without reading the
\* configuration or building a session; after an Exception of the lookup the
\* configuration is read and one construction attempted, whose session is
\* returned when it succeeds and whose failure is the call's failure; a
\* BaseException of the lookup that is no Exception ends the call.
C5_AmbientElseTryNew ==
    gs_pc = "done" =>
        /\ ambient = "active" =>
              /\ gs.outcome = "returned" /\ gs.handle = "ambient"
              /\ gs.configReads = 0 /\ gs.createAttempts = 0
        /\ ambient = "Exception" =>
              /\ gs.configReads > 0 /\ gs.createAttempts = 1
              /\ creation = "created" => gs.outcome = "returned" /\ gs.handle = "new"
              /\ creation = "raises" => gs.outcome = "raised" /\ gs.error = "create"
        /\ ambient = "BaseException" =>
              /\ gs.outcome = "raised" /\ gs.error = "BaseException"
              /\ gs.configReads = 0 /\ gs.createAttempts = 0

\* C5 witness: the lookup raised, the configuration was read and the new
\* session returned
C5_Witness ==
    /\ gs_pc = "done"
    /\ ambient = "Exception"
    /\ creation = "created"
    /\ gs.configReads = Len(KEYS)
    /\ gs.handle = "new"

\* C6: a failed construction ends the call in the error outcome with no
\* handle; a call asks for the active session at most once and builds a
\* session at most once.
C6_CreateFailurePropagates ==
    gs_pc = "done" =>
        /\ gs.ambientAttempts <= 1
        /\ gs.createAttempts <= 1
        /\ (ambient = "Exception" /\ creation = "raises") =>
              /\ gs.outcome = "raised"
              /\ gs.handle = "none"
              /\ gs.error = "create"

\* C6 witness: the fallback ran and the construction failed
C6_Witness ==
    /\ gs_pc = "done"
    /\ ambient = "Exception"
    /\ creation = "raises"
    /\ gs.createAttempts = 1
    /\ gs.outcome = "raised"

====
